---- MODULE Spec2Model ----
(***************************************************************************)
(* Model of proxycore: the row decoder (ResultSet / Row), the Endpoint     *)
(* variants, the direct and the cloud ("astra") endpoint factories and the *)
(* TLS configuration built per endpoint by copyTLSConfig.                  *)
(*                                                                         *)
(* Go strings are TLA+ strings, Go byte slices are sequences of 0..255,    *)
(* Go slice and map indexes are kept 0-based as in the source.  A Go call  *)
(* ends in one of three ways: it returns a value, it returns an error, or  *)
(* it panics; every result below carries a "kind" that says which.         *)
(***************************************************************************)
EXTENDS Integers, Sequences, FiniteSets, TLC

VARIABLES
    rs,        \* the *ResultSet built by the last NewResultSet
    rowRet,    \* what the last Row.ByName / Row.ByPos / RowCount call returned
    dFactory,  \* the *defaultEndpointFactory of the last successful Resolve
    dRet,      \* what the last ResolveWithDefaultPort / Create (direct) returned
    heap,      \* every *tls.Config there is; heap[1] is the bundle's own
    aFactory,  \* the *astraResolver of the last successful ResolveAstra
    aRet,      \* what the last ResolveAstra returned
    calls,     \* per goroutine: the astraResolver.Create call in progress
    made,      \* every astraEndpoint handed to a caller, with what it showed then
    vRet,      \* what the last run of a VerifyPeerCertificate callback returned
    resolving, \* the ResolveAstra call in progress, statement by statement
    bundle     \* the *Bundle: what TLSConfig() hands out, how often it was called

vars == <<rs, rowRet, dFactory, dRet, heap, aFactory, aRet, calls, made, vRet,
          resolving, bundle>>

(***************************************************************************)
(* Bounds of the model.                                                    *)
(***************************************************************************)
MaxCols == 2        \* columns of a result set in the row-decoder runs
MaxRows == 1        \* data rows of a result set in the row-decoder runs
MaxContactPoints == 2   \* contact points handed to ResolveWithDefaultPort
MaxConfigs == 4     \* calls of bundle.TLSConfig(), HTTP clients' included
MaxContactIds == 2  \* contact_points entries of a metadata body
MaxChain == 2       \* certificates in a presented chain

(***************************************************************************)
(* Strings and numbers.                                                    *)
(***************************************************************************)
CharAt(s, i) == SubSeq(s, i, i)

HexDigits == "0123456789abcdef"

HexNibble(n) == CharAt(HexDigits, n + 1)

\* %02x of one byte
HexByte(b) == HexNibble(b \div 16) \o HexNibble(b % 16)

RECURSIVE HexBytes(_)
HexBytes(bs) == IF bs = <<>> THEN "" ELSE HexByte(Head(bs)) \o HexBytes(Tail(bs))

\* %x of a non-negative number, no padding
RECURSIVE HexNum(_)
HexNum(n) == IF n < 16 THEN HexNibble(n) ELSE HexNum(n \div 16) \o HexNibble(n % 16)

\* strings.Split(s, sep) for a one-character separator
RECURSIVE SplitFrom(_, _, _, _)
SplitFrom(s, sep, i, cur) ==
    IF i > Len(s) THEN <<cur>>
    ELSE IF CharAt(s, i) = sep THEN <<cur>> \o SplitFrom(s, sep, i + 1, "")
    ELSE SplitFrom(s, sep, i + 1, cur \o CharAt(s, i))

Split(s, sep) == SplitFrom(s, sep, 1, "")

DigitValue(c) ==
    CASE c = "0" -> 0 [] c = "1" -> 1 [] c = "2" -> 2 [] c = "3" -> 3 [] c = "4" -> 4
      [] c = "5" -> 5 [] c = "6" -> 6 [] c = "7" -> 7 [] c = "8" -> 8 [] c = "9" -> 9
      [] OTHER -> -1

RECURSIVE DigitsValue(_, _, _)
DigitsValue(s, i, acc) ==
    IF i > Len(s) THEN acc
    ELSE IF DigitValue(CharAt(s, i)) < 0 THEN -1
    ELSE DigitsValue(s, i + 1, acc * 10 + DigitValue(CharAt(s, i)))

\* strconv.Atoi: an optional sign, then at least one decimal digit
Atoi(s) ==
    LET signed == Len(s) > 0 /\ CharAt(s, 1) \in {"+", "-"}
        body   == IF signed THEN SubSeq(s, 2, Len(s)) ELSE s
        v      == IF body = "" THEN -1 ELSE DigitsValue(body, 1, 0)
    IN  IF v < 0 THEN [ok |-> FALSE, n |-> 0]
        ELSE [ok |-> TRUE, n |-> IF signed /\ CharAt(s, 1) = "-" THEN 0 - v ELSE v]

\* %d
Itoa(n) == IF n < 0 THEN "-" \o ToString(0 - n) ELSE ToString(n)

(***************************************************************************)
(* Decoded values.  A decoded value is [t, b]: t is the Go type of the     *)
(* interface value ("ip" net.IP, "uuid" primitive.UUID, "text" string,     *)
(* "nil" the nil interface) and b its bytes.                               *)
(***************************************************************************)
NilValue == [t |-> "nil", b |-> <<>>]

ColumnNameNotFound == "column name not found"

DecodeError == "cannot decode"

Returned(v) == [kind |-> "ok", val |-> v, err |-> ""]

Failed(e) == [kind |-> "err", val |-> NilValue, err |-> e]

Panicked == [kind |-> "panic", val |-> NilValue, err |-> ""]

\* DecodeType(type, version, bytes): the value of the declared wire type, or a
\* decode error when the bytes are malformed for it.
DecodeType(type, version, bytes) ==
    CASE type = "inet" ->
            IF Len(bytes) \in {4, 16} THEN Returned([t |-> "ip", b |-> bytes])
            ELSE Failed(DecodeError)
      [] type = "uuid" ->
            IF Len(bytes) = 16 THEN Returned([t |-> "uuid", b |-> bytes])
            ELSE Failed(DecodeError)
      [] OTHER -> Returned([t |-> "text", b |-> bytes])

(***************************************************************************)
(* ResultSet and Row.                                                      *)
(***************************************************************************)
ColumnNames(columns) == {columns[k].Name : k \in 1..Len(columns)}

\* Faulty variant: a name already indexed keeps its first position.
RECURSIVE IndexColumnsFirstWins(_, _, _)
IndexColumnsFirstWins(columns, i, idx) ==
    IF i >= Len(columns) THEN idx
    ELSE LET n == columns[i + 1].Name
         IN  IndexColumnsFirstWins(columns, i + 1,
                 [m \in DOMAIN idx \cup {n} |-> IF m \in DOMAIN idx THEN idx[m] ELSE i])

\* the loop of NewResultSet: columnIndexes[column.Name] = i, in column order
RECURSIVE IndexColumns(_, _, _)
IndexColumns(columns, i, idx) ==
    IF i >= Len(columns) THEN idx
    ELSE LET n == columns[i + 1].Name
         IN  IndexColumns(columns, i + 1,
                 [m \in DOMAIN idx \cup {n} |-> IF m = n THEN i ELSE idx[m]])

NewResultSet(rows, version) ==
    [columnIndexes |-> IndexColumns(rows.Columns, 0, [m \in {} |-> 0]),
     result        |-> rows,
     version       |-> version]

RowCount(r) == Len(r.result.Data)

\* rs.Row(i): panics (index out of range) outside 0 <= i < RowCount
RowInRange(r, i) == 0 <= i /\ i < RowCount(r)

Row(r, i) == [resultSet |-> r, row |-> r.result.Data[i + 1]]

ByPos(r, i) ==
    IF i < 0 \/ i >= Len(r.resultSet.result.Columns) \/ i >= Len(r.row)
    THEN Panicked
    ELSE DecodeType(r.resultSet.result.Columns[i + 1].Type,
                    r.resultSet.version, r.row[i + 1])

ByName(r, n) ==
    IF n \notin DOMAIN r.resultSet.columnIndexes
    THEN Failed(ColumnNameNotFound)
    ELSE ByPos(r, r.resultSet.columnIndexes[n])

(***************************************************************************)
(* Inputs of the row decoder: wire bytes, column metadata, result sets.    *)
(***************************************************************************)
Zeros(n) == [k \in 1..n |-> 0]

IP4Zero == <<0, 0, 0, 0>>                         \* 0.0.0.0
IP4Peer == <<10, 0, 0, 5>>                        \* 10.0.0.5
IP4Rpc == <<10, 0, 0, 9>>                         \* 10.0.0.9
IP6Zero == Zeros(16)                              \* ::
IP6MappedZero == Zeros(10) \o <<255, 255>> \o Zeros(4)   \* ::ffff:0.0.0.0
IP6Node == <<32, 1, 13, 184>> \o Zeros(4) \o <<0, 1>> \o Zeros(5) \o <<1>>  \* 2001:db8::1:0:0:1
Malformed == <<1>>                                \* too short for inet and for uuid

UUIDa == <<1, 16>> \o Zeros(14)
UUIDb == <<17, 0>> \o Zeros(14)
UUIDc == Zeros(15) \o <<171>>
UUIDs == {UUIDa, UUIDb, UUIDc}

Versions == {3, 4}

\* sequences over S of length 0..n
RECURSIVE SeqsUpTo(_, _)
SeqsUpTo(S, n) ==
    IF n = 0 THEN {<<>>}
    ELSE LET shorter == SeqsUpTo(S, n - 1)
         IN  shorter \cup {Append(q, x) : q \in {t \in shorter : Len(t) = n - 1}, x \in S}

SeqsOfLen(S, n) == {q \in SeqsUpTo(S, n) : Len(q) = n}

Col(n, t) == [Name |-> n, Type |-> t]

RowColumns == {Col("peer", "inet"), Col("peer", "uuid"), Col("rpc_address", "inet")}

\* 4 bytes decode as inet only, 16 bytes as inet and as uuid
RowCells == {IP4Peer, UUIDc}

LookupNames == {"peer", "rpc_address", "host_id"}

\* a message.RowsResult: column metadata and data rows; a data row may be one
\* cell short of its metadata
RowsResults ==
    UNION {
      UNION {
        {[Columns |-> cols, Data |-> data] :
            data \in SeqsUpTo(SeqsOfLen(RowCells, Len(cols))
                              \cup SeqsOfLen(RowCells, Len(cols) - short), MaxRows)}
        : short \in {s \in {0, 1} : s <= Len(cols)}}
      : cols \in SeqsUpTo(RowColumns, MaxCols)}

EmptyRows == [Columns |-> <<>>, Data |-> <<>>]

NoRowCall == [op |-> "none", i |-> 0, name |-> "", pos |-> 0,
              ret |-> Returned(NilValue), n |-> 0]

(***************************************************************************)
(* Operations of the row decoder, on the result set the run was given.     *)
(***************************************************************************)
CallRowCount ==
    /\ rowRet' = [NoRowCall EXCEPT !.op = "RowCount", !.n = RowCount(rs)]
    /\ UNCHANGED <<rs, dFactory, dRet, heap, aFactory, aRet, calls, made, vRet, resolving, bundle>>

\* rs.Row(i) followed by row.ByName(n)
CallByName ==
    /\ \E i \in 0..MaxRows, n \in LookupNames :
          rowRet' = [NoRowCall EXCEPT !.op = "ByName", !.i = i, !.name = n,
                        !.ret = IF RowInRange(rs, i) THEN ByName(Row(rs, i), n)
                                ELSE Panicked]
    /\ UNCHANGED <<rs, dFactory, dRet, heap, aFactory, aRet, calls, made, vRet, resolving, bundle>>

\* rs.Row(i) followed by row.ByPos(pos)
CallByPos ==
    /\ \E i \in 0..MaxRows, pos \in 0..MaxCols :
          rowRet' = [NoRowCall EXCEPT !.op = "ByPos", !.i = i, !.pos = pos,
                        !.ret = IF RowInRange(rs, i) THEN ByPos(Row(rs, i), pos)
                                ELSE Panicked]
    /\ UNCHANGED <<rs, dFactory, dRet, heap, aFactory, aRet, calls, made, vRet, resolving, bundle>>

(***************************************************************************)
(* net.IP.                                                                 *)
(***************************************************************************)
V4InV6Prefix == Zeros(10) \o <<255, 255>>

IPv4zero == V4InV6Prefix \o <<0, 0, 0, 0>>     \* net.IPv4zero = net.IPv4(0, 0, 0, 0)

IPv6zero == Zeros(16)                          \* net.IPv6zero

\* ip.To4(): the 4-byte form of an IPv4 address, or <<>> (nil)
To4(ip) ==
    IF Len(ip) = 4 THEN ip
    ELSE IF Len(ip) = 16 /\ SubSeq(ip, 1, 12) = V4InV6Prefix THEN SubSeq(ip, 13, 16)
    ELSE <<>>

\* ip.Equal(x): an IPv4 address and the same address in IPv6 form are equal
IPEqual(ip, x) ==
    IF Len(ip) = Len(x) THEN ip = x
    ELSE IF Len(ip) = 4 /\ Len(x) = 16
         THEN SubSeq(x, 1, 12) = V4InV6Prefix /\ ip = SubSeq(x, 13, 16)
    ELSE IF Len(ip) = 16 /\ Len(x) = 4
         THEN SubSeq(ip, 1, 12) = V4InV6Prefix /\ SubSeq(ip, 13, 16) = x
    ELSE FALSE

\* the k-th 16-bit group (0..7) of a 16-byte address
Group(ip, k) == ip[2 * k + 1] * 256 + ip[2 * k + 2]

RECURSIVE RunEnd(_, _)
RunEnd(ip, j) == IF j < 8 /\ Group(ip, j) = 0 THEN RunEnd(ip, j + 1) ELSE j

\* the longest run of zero groups, the leftmost of the longest; [e0, e1) or
\* -1, -1 when no run is longer than one group
RECURSIVE LongestRun(_, _, _, _)
LongestRun(ip, i, e0, e1) ==
    IF i >= 8 THEN (IF e1 - e0 <= 1 THEN [e0 |-> -1, e1 |-> -1] ELSE [e0 |-> e0, e1 |-> e1])
    ELSE LET j == RunEnd(ip, i)
         IN  IF j > i /\ j - i > e1 - e0 THEN LongestRun(ip, j + 1, i, j)
             ELSE LongestRun(ip, i + 1, e0, e1)

RECURSIVE IP6Text(_, _, _)
IP6Text(ip, i, run) ==
    IF i >= 8 THEN ""
    ELSE IF i = run.e0
         THEN "::" \o (IF run.e1 >= 8 THEN ""
                       ELSE HexNum(Group(ip, run.e1)) \o IP6Text(ip, run.e1 + 1, run))
    ELSE (IF i > 0 THEN ":" ELSE "") \o HexNum(Group(ip, i)) \o IP6Text(ip, i + 1, run)

\* ip.String(), which %s prints
IPString(ip) ==
    IF Len(ip) = 0 THEN "<nil>"
    ELSE IF Len(To4(ip)) = 4
         THEN LET p == To4(ip)
              IN  Itoa(p[1]) \o "." \o Itoa(p[2]) \o "." \o Itoa(p[3]) \o "." \o Itoa(p[4])
    ELSE IF Len(ip) # 16 THEN "?" \o HexBytes(ip)
    ELSE IP6Text(ip, 0, LongestRun(ip, 0, -1, -1))

(***************************************************************************)
(* Endpoint: defaultEndpoint and astraEndpoint.  tlsConfig is a pointer    *)
(* into heap; 0 is nil.                                                    *)
(***************************************************************************)
DefaultEndpoint(addr) == [variant |-> "default", addr |-> addr, tlsConfig |-> 0]

AstraEndpoint(addr, cfg) == [variant |-> "astra", addr |-> addr, tlsConfig |-> cfg]

NoEndpoint == [variant |-> "none", addr |-> "", tlsConfig |-> 0]

Addr(e) == e.addr

IsResolved(e) == e.variant = "default"

TlsConfig(e) == IF e.variant = "default" THEN 0 ELSE e.tlsConfig

\* Key reads the server name of the endpoint's configuration when it is called
Key(h, e) ==
    IF e.variant = "default" THEN e.addr
    ELSE e.addr \o ":" \o h[e.tlsConfig].ServerName

(***************************************************************************)
(* The direct strategy.                                                    *)
(***************************************************************************)
\* net.LookupHost against the resolver the runs use: a literal IPv4 address
\* resolves to itself, a known name to its addresses, anything else fails
LookupHost(host) ==
    CASE host = "10.0.0.1" -> [ok |-> TRUE, addrs |-> <<"10.0.0.1">>]
      [] host = "db.example" -> [ok |-> TRUE, addrs |-> <<"10.0.0.2", "10.0.0.3">>]
      [] host = "v6.example" -> [ok |-> TRUE, addrs |-> <<"2001:db8::1">>]
      [] OTHER -> [ok |-> FALSE, addrs |-> <<>>]

NoFactory == [kind |-> "none", contactPoints |-> <<>>, defaultPort |-> 0, host |-> ""]

DefaultEndpointFactory(endpoints, port) ==
    [kind |-> "default", contactPoints |-> endpoints, defaultPort |-> port, host |-> ""]

ResolveOk(f) == [kind |-> "factory", factory |-> f, err |-> ""]

ResolveErr(e) == [kind |-> "err", factory |-> NoFactory, err |-> e]

ResolvePanic == [kind |-> "panic", factory |-> NoFactory, err |-> ""]

\* the inner loop: one endpoint "addr:port" per resolved address
RECURSIVE AppendAddrs(_, _, _)
AppendAddrs(endpoints, addrs, port) ==
    IF addrs = <<>> THEN endpoints
    ELSE AppendAddrs(Append(endpoints, DefaultEndpoint(Head(addrs) \o ":" \o Itoa(port))),
                     Tail(addrs), port)

\* Faulty variant: a contact point that does not resolve is skipped.
RECURSIVE ResolveFromSkipping(_, _, _, _)
ResolveFromSkipping(contactPoints, k, defaultPort, endpoints) ==
    IF k > Len(contactPoints) THEN ResolveOk(DefaultEndpointFactory(endpoints, defaultPort))
    ELSE LET cp     == contactPoints[k]
             parts  == Split(cp, ":")
             looked == LookupHost(parts[1])
             parsed == IF Len(parts) > 1 THEN Atoi(parts[2])
                       ELSE [ok |-> TRUE, n |-> defaultPort]
         IN  IF ~looked.ok
             THEN ResolveFromSkipping(contactPoints, k + 1, defaultPort, endpoints)
             ELSE IF ~parsed.ok
             THEN ResolveErr("contact point " \o cp \o " has invalid port: "
                             \o "strconv.Atoi: parsing \"" \o parts[2] \o "\": invalid syntax")
             ELSE ResolveFromSkipping(contactPoints, k + 1, defaultPort,
                                      AppendAddrs(endpoints, looked.addrs, parsed.n))

\* the loop over the contact points, from the k-th on
RECURSIVE ResolveFrom(_, _, _, _)
ResolveFrom(contactPoints, k, defaultPort, endpoints) ==
    IF k > Len(contactPoints) THEN ResolveOk(DefaultEndpointFactory(endpoints, defaultPort))
    ELSE LET cp     == contactPoints[k]
             parts  == Split(cp, ":")
             looked == LookupHost(parts[1])
             parsed == IF Len(parts) > 1 THEN Atoi(parts[2])
                       ELSE [ok |-> TRUE, n |-> defaultPort]
         IN  IF ~looked.ok
             THEN ResolveErr("unable to resolve contact point " \o cp \o ": lookup "
                             \o parts[1] \o ": no such host")
             ELSE IF ~parsed.ok
             THEN ResolveErr("contact point " \o cp \o " has invalid port: "
                             \o "strconv.Atoi: parsing \"" \o parts[2] \o "\": invalid syntax")
             ELSE ResolveFrom(contactPoints, k + 1, defaultPort,
                              AppendAddrs(endpoints, looked.addrs, parsed.n))

ResolveWithDefaultPort(contactPoints, defaultPort) ==
    ResolveFrom(contactPoints, 1, defaultPort, <<>>)

CreateOk(e) == [kind |-> "endpoint", ep |-> e, err |-> ""]

CreateErr(e) == [kind |-> "err", ep |-> NoEndpoint, err |-> e]

CreatePanic == [kind |-> "panic", ep |-> NoEndpoint, err |-> ""]

\* Faulty variant: the unspecified rpc_address is used as it is, without the fallback.
DefaultCreateNoFallback(d, row) ==
    LET peer == ByName(row, "peer")
        rpc  == ByName(row, "rpc_address")
    IN  IF peer.kind = "panic" THEN CreatePanic
        ELSE IF peer.kind = "err" /\ peer.err # ColumnNameNotFound THEN CreateErr(peer.err)
        ELSE IF rpc.kind = "panic" THEN CreatePanic
        ELSE IF rpc.kind = "err" THEN CreateErr(rpc.err)
        ELSE IF rpc.val.t # "ip" THEN CreatePanic
        ELSE CreateOk(DefaultEndpoint(IPString(rpc.val.b) \o ":" \o Itoa(d.defaultPort)))

\* defaultEndpointFactory.Create
DefaultCreate(d, row) ==
    LET peer == ByName(row, "peer")
        rpc  == ByName(row, "rpc_address")
    IN  IF peer.kind = "panic" THEN CreatePanic
        ELSE IF peer.kind = "err" /\ peer.err # ColumnNameNotFound THEN CreateErr(peer.err)
        ELSE IF rpc.kind = "panic" THEN CreatePanic
        ELSE IF rpc.kind = "err" THEN CreateErr(rpc.err)
        ELSE IF rpc.val.t # "ip" THEN CreatePanic         \* rpcAddress.(net.IP)
        ELSE IF IPEqual(rpc.val.b, IPv4zero) \/ IPEqual(rpc.val.b, IPv6zero)
             THEN IF peer.val.t # "ip" THEN CreatePanic   \* peer.(net.IP)
                  ELSE CreateOk(DefaultEndpoint(
                           IPString(peer.val.b) \o ":" \o Itoa(d.defaultPort)))
        ELSE CreateOk(DefaultEndpoint(IPString(rpc.val.b) \o ":" \o Itoa(d.defaultPort)))

(***************************************************************************)
(* Inputs and operations of the direct strategy.                           *)
(***************************************************************************)
ContactPointInputs ==
    {"10.0.0.1", "db.example", "db.example:9043", "nohost.example",
     "10.0.0.1:port", "::1", "v6.example:19042:7"}

DefaultPorts == {9042, 19042}

AddressCells == {IP4Zero, IP4Peer, IP4Rpc, IP6Zero, IP6MappedZero, IP6Node, Malformed}

DirectLayouts ==
    {<<Col("peer", "inet"), Col("rpc_address", "inet")>>,
     <<Col("rpc_address", "inet")>>,
     <<Col("peer", "inet")>>,
     <<Col("peer", "varchar"), Col("rpc_address", "inet")>>,
     <<Col("peer", "inet"), Col("rpc_address", "varchar")>>}

\* one-row result sets of a topology query, and their row 0
DirectRows ==
    UNION {
      {Row(NewResultSet([Columns |-> cols, Data |-> <<cells>>], 4), 0) :
          cells \in SeqsOfLen(AddressCells, Len(cols))}
      : cols \in DirectLayouts}

NoDirectCall == [op |-> "none", contactPoints |-> <<>>, port |-> 0,
                 row |-> Row(NewResultSet([Columns |-> <<>>, Data |-> <<<<>>>>], 4), 0),
                 kind |-> "none", factory |-> NoFactory, ep |-> NoEndpoint, err |-> ""]

ContactPointLists == SeqsUpTo(ContactPointInputs, MaxContactPoints)

\* the bootstrap of a run
CallResolve ==
    /\ dRet.op = "none"
    /\ \E cps \in ContactPointLists, port \in DefaultPorts :
          LET r == ResolveWithDefaultPort(cps, port)
          IN  /\ dRet' = [NoDirectCall EXCEPT !.op = "Resolve", !.contactPoints = cps,
                             !.port = port, !.kind = r.kind, !.factory = r.factory,
                             !.err = r.err]
              /\ dFactory' = IF r.kind = "factory" THEN r.factory ELSE dFactory
    /\ UNCHANGED <<rs, rowRet, heap, aFactory, aRet, calls, made, vRet, resolving, bundle>>

\* a topology row of the run's first refresh
CallDefaultCreate ==
    /\ dFactory.kind = "default"
    /\ dRet.op = "Resolve"
    /\ \E row \in DirectRows :
          LET r == DefaultCreate(dFactory, row)
          IN  dRet' = [NoDirectCall EXCEPT !.op = "Create", !.row = row,
                          !.port = dFactory.defaultPort,
                          !.kind = r.kind, !.ep = r.ep, !.err = r.err]
    /\ UNCHANGED <<rs, rowRet, dFactory, heap, aFactory, aRet, calls, made, vRet, resolving, bundle>>

(***************************************************************************)
(* The bundle and the TLS configuration built from it.                     *)
(* A *tls.Config is a pointer p into heap; heap[p] holds its fields.       *)
(* VerifyPeerCertificate is 0 (nil) or the pointer its closure captured    *)
(* as tlsConfig; the closure's other capture, bundle, is the one bundle.   *)
(***************************************************************************)
BundleHost == "bundle.example"

BundlePort == 29042

BundlePool == {"ca1"}

BundleConfig ==
    [ServerName |-> "", InsecureSkipVerify |-> FALSE, RootCAs |-> BundlePool,
     VerifyPeerCertificate |-> 0]

\* bundle.TLSConfig(), a method whose body is not among the sources: the
\* *tls.Config it returns is the bundle's own (fresh = FALSE) or a copy of it
\* made for this caller (fresh = TRUE)
BundleTLSConfig(h, fresh) ==
    IF fresh THEN [heap |-> Append(h, h[1]), ptr |-> Len(h) + 1]
    ELSE [heap |-> h, ptr |-> 1]

\* the bundles a run may be given; taken counts the calls of TLSConfig()
Bundles == {[fresh |-> f, taken |-> 0] : f \in BOOLEAN}

NoBundle == [fresh |-> FALSE, taken |-> 0]

\* tlsConfig := bundle.TLSConfig(): the pointer the bundle returns is kept
CopyGetConfig(h, fresh) == BundleTLSConfig(h, fresh)

\* Faulty variant: the server name is the bundle's host, not the node's identity.
CopySetServerNameBundleHost(h, p, serverName) == [h EXCEPT ![p].ServerName = BundleHost]

\* tlsConfig.ServerName = serverName
CopySetServerName(h, p, serverName) == [h EXCEPT ![p].ServerName = serverName]

\* tlsConfig.InsecureSkipVerify = true
CopySetInsecure(h, p) == [h EXCEPT ![p].InsecureSkipVerify = TRUE]

\* tlsConfig.VerifyPeerCertificate = func(...) {...}, a closure over tlsConfig
CopySetVerify(h, p) == [h EXCEPT ![p].VerifyPeerCertificate = p]

copyTLSConfig(h, fresh, serverName) ==
    LET a == CopyGetConfig(h, fresh)
    IN  [heap |-> CopySetVerify(CopySetInsecure(
                      CopySetServerName(a.heap, a.ptr, serverName), a.ptr), a.ptr),
         ptr  |-> a.ptr]

(***************************************************************************)
(* Certificates.  A raw certificate either fails to parse or parses to     *)
(* [id, issuer, isCA, dns, notAfter]; a pool is a set of trusted ids.      *)
(***************************************************************************)
Cert(id, issuer, isCA, dns, notAfter) ==
    [ok |-> TRUE, id |-> id, issuer |-> issuer, isCA |-> isCA, dns |-> dns,
     notAfter |-> notAfter]

Garbage == [ok |-> FALSE, id |-> "", issuer |-> "", isCA |-> FALSE, dns |-> {},
            notAfter |-> 0]

\* x509.ParseCertificate
ParseCertificate(raw) == raw.ok

\* some chain leads from cert to a root of the pool through the intermediates,
\* every certificate on it valid at time now; at most depth intermediates
RECURSIVE ChainsTo(_, _, _, _, _)
ChainsTo(cert, roots, inters, now, depth) ==
    /\ now <= cert.notAfter
    /\ \/ cert.issuer \in roots
       \/ /\ depth > 0
          /\ \E k \in 1..Len(inters) :
                /\ inters[k].id = cert.issuer
                /\ inters[k].isCA
                /\ ChainsTo(inters[k], roots, inters, now, depth - 1)

\* leaf.Verify(opts): nil exactly when the leaf chains to opts.Roots and,
\* for a non-empty opts.DNSName, carries that name
Verify(leaf, opts) ==
    /\ ChainsTo(leaf, opts.Roots, opts.Intermediates, opts.CurrentTime,
                Len(opts.Intermediates))
    /\ (opts.DNSName = "" \/ opts.DNSName \in leaf.dns)

\* Faulty variant: the expected DNS name is the SNI server name of the configuration.
VerifyOptionsSNI(h, c, certs, now) ==
    [Roots         |-> h[c].RootCAs,
     CurrentTime   |-> now,
     DNSName       |-> h[c].ServerName,
     Intermediates |-> Tail(certs)]

\* the x509.VerifyOptions the callback captured as c builds
VerifyOptions(h, c, certs, now) ==
    [Roots         |-> h[c].RootCAs,
     CurrentTime   |-> now,
     DNSName       |-> BundleHost,
     Intermediates |-> Tail(certs)]

\* the VerifyPeerCertificate callback of configuration p, run on rawCerts at
\* time now: "nil", "err" or "panic" (certs[1:] and certs[0] of an empty chain)
VerifyPeerCertificate(h, p, rawCerts, now) ==
    LET c == h[p].VerifyPeerCertificate
    IN  IF \E k \in 1..Len(rawCerts) : ~ParseCertificate(rawCerts[k]) THEN "err"
        ELSE IF Len(rawCerts) = 0 THEN "panic"
        ELSE IF Verify(rawCerts[1], VerifyOptions(h, c, rawCerts, now)) THEN "nil"
        ELSE "err"

(***************************************************************************)
(* The cloud strategy.                                                     *)
(***************************************************************************)
\* uuid.String(): 8-4-4-4-12 lower-case hexadecimal digits
UUIDString(u) ==
    HexBytes(SubSeq(u, 1, 4)) \o "-" \o HexBytes(SubSeq(u, 5, 6)) \o "-"
      \o HexBytes(SubSeq(u, 7, 8)) \o "-" \o HexBytes(SubSeq(u, 9, 10)) \o "-"
      \o HexBytes(SubSeq(u, 11, 16))

\* The body of the metadata response, as the JSON value it spells: k is
\* "invalid" (not JSON), "null", "array" or "object"; for an object, ci says
\* whether contact_info is "absent", an "object" or a "string", and sni and
\* cps are contact_info's sni_proxy_address and contact_points.
JsonBody(k, ci, sni, cps) == [k |-> k, ci |-> ci, sni |-> sni, cps |-> cps]

\* json.Unmarshal(body, &metadata) with metadata a nil *astraMetadata
Unmarshal(body) ==
    LET result(ok, isNil, sni, cps, err) ==
            [ok |-> ok, isNil |-> isNil, sni |-> sni, cps |-> cps, err |-> err]
    IN  CASE body.k = "invalid" ->
                result(FALSE, TRUE, "", <<>>, "invalid character looking for beginning of value")
          [] body.k = "null" -> result(TRUE, TRUE, "", <<>>, "")
          [] body.k = "array" ->
                result(FALSE, TRUE, "", <<>>,
                       "json: cannot unmarshal array into Go value of type proxycore.astraMetadata")
          [] body.ci = "string" ->
                result(FALSE, FALSE, "", <<>>,
                       "json: cannot unmarshal string into Go struct field "
                         \o "astraMetadata.contact_info of type proxycore.contactInfo")
          [] body.ci = "absent" -> result(TRUE, FALSE, "", <<>>, "")
          [] OTHER -> result(TRUE, FALSE, body.sni, body.cps, "")

AstraResolver(endpoints, host) ==
    [kind |-> "astra", contactPoints |-> endpoints, defaultPort |-> 0, host |-> host]

MetadataURL == "https://" \o BundleHost \o ":" \o Itoa(BundlePort) \o "/metadata"

\* the TLSClientConfig: bundle.TLSConfig() of the http.Transport the
\* metadata is fetched with
ClientTLSConfig(h, fresh) == BundleTLSConfig(h, fresh)

\* httpsClient.Get, ioutil.ReadAll and json.Unmarshal against a metadata
\* service that answers response: transport (the GET got a response), status,
\* readOk (the body could be read to its end), body; then the evaluation of
\* metadata.ContactInfo.ContactPoints the loop starts with
FetchMetadata(response) ==
    LET out(kind, err, sni, cps) == [kind |-> kind, err |-> err, sni |-> sni, cps |-> cps]
    IN  IF ~response.transport
        THEN out("err", "unable to get metadata from " \o MetadataURL \o ": Get \""
                          \o MetadataURL \o "\": connection refused", "", <<>>)
        ELSE IF ~response.readOk THEN out("err", "unexpected EOF", "", <<>>)
        ELSE LET m == Unmarshal(response.body)
             IN  IF ~m.ok THEN out("err", m.err, "", <<>>)
                 ELSE IF m.isNil THEN out("panic", "", "", <<>>)
                 ELSE out("factory", "", m.sni, m.cps)

\* astraResolver.Create up to the call of copyTLSConfig: the host_id lookup
\* and hostId.(primitive.UUID); "copy" carries the server name to build with
AstraCreateLookup(row) ==
    LET hostId == ByName(row, "host_id")
    IN  IF hostId.kind = "panic" THEN [next |-> "panic", err |-> "", name |-> ""]
        ELSE IF hostId.kind = "err" THEN [next |-> "err", err |-> hostId.err, name |-> ""]
        ELSE IF hostId.val.t # "uuid" THEN [next |-> "panic", err |-> "", name |-> ""]
        ELSE [next |-> "copy", err |-> "", name |-> UUIDString(hostId.val.b)]

\* the &astraEndpoint{addr: a.host, tlsConfig: ...} Create returns
AstraCreateEndpoint(a, cfg) == AstraEndpoint(a.host, cfg)

(***************************************************************************)
(* Inputs and operations of the cloud strategy.  ResolveAstra and Create   *)
(* run as goroutines, one statement of copyTLSConfig at a time.            *)
(***************************************************************************)
Procs == {1, 2}

SniProxyAddress == "sni.example:29042"

ContactIds == {UUIDString(UUIDa), UUIDString(UUIDc)}

ContactIdLists == SeqsUpTo(ContactIds, MaxContactIds)

MetadataBodies ==
    {JsonBody("invalid", "absent", "", <<>>), JsonBody("null", "absent", "", <<>>),
     JsonBody("array", "absent", "", <<>>), JsonBody("object", "string", "", <<>>),
     JsonBody("object", "absent", "", <<>>)}
    \cup {JsonBody("object", "object", SniProxyAddress, cps) :
             cps \in ContactIdLists}

Response(t, st, rd, body) == [transport |-> t, status |-> st, readOk |-> rd, body |-> body]

Responses ==
    {Response(TRUE, st, TRUE, b) : st \in {200, 204, 404, 503}, b \in MetadataBodies}
    \cup {Response(FALSE, 0, FALSE, JsonBody("invalid", "absent", "", <<>>)),
          Response(TRUE, 200, FALSE, JsonBody("invalid", "absent", "", <<>>))}

\* the metadata answers of the runs that go on to Create
GoodResponses ==
    {Response(TRUE, 200, TRUE, JsonBody("object", "object", SniProxyAddress, cps)) :
        cps \in ContactIdLists}

OneRow(cols, cells) == Row(NewResultSet([Columns |-> cols, Data |-> <<cells>>], 4), 0)

\* topology rows: a host_id, none, one of the wrong type
AstraRows ==
    {OneRow(<<Col("host_id", "uuid")>>, <<c>>) : c \in {UUIDa, UUIDb}}
    \cup {OneRow(<<Col("peer", "inet")>>, <<IP4Peer>>),
          OneRow(<<Col("host_id", "inet")>>, <<IP4Peer>>)}

NoAstraCall == [op |-> "none", response |-> Response(FALSE, 0, FALSE,
                                               JsonBody("invalid", "absent", "", <<>>)),
                kind |-> "none", factory |-> NoFactory, err |-> ""]

IdleCall == [pc |-> "idle", row |-> NoDirectCall.row, factory |-> NoFactory,
             name |-> "", cfg |-> 0, alone |-> TRUE,
             ret |-> [kind |-> "none", ep |-> NoEndpoint, err |-> ""]]

\* an endpoint handed to a caller, with what its methods returned at that
\* time; alone says that no other call assigned a server name between this
\* call's assignment and its return
Made(h, e, by, want, hostId, f, alone) ==
    [ep |-> e, by |-> by, want |-> want, hostId |-> hostId, factory |-> f,
     alone |-> alone,
     addr |-> Addr(e), key |-> Key(h, e), serverName |-> h[TlsConfig(e)].ServerName]

RECURSIVE MadeByResolve(_, _, _, _)
MadeByResolve(h, f, cps, k) ==
    IF k > Len(cps) THEN <<>>
    ELSE <<Made(h, f.contactPoints[k], "resolve", cps[k], <<>>, f, TRUE)>>
           \o MadeByResolve(h, f, cps, k + 1)

IdleResolve ==
    [pc |-> "idle", response |-> NoAstraCall.response, client |-> 0, sni |-> "",
     cps |-> <<>>, k |-> 0, cfg |-> 0, endpoints |-> <<>>]

\* calls of bundle.TLSConfig() the ResolveAstra in progress will still make
ResolveReserved ==
    CASE resolving.pc = "get" -> Len(resolving.response.body.cps)
      [] resolving.pc = "loop" -> Len(resolving.cps) + 1 - resolving.k
      [] resolving.pc \in {"name", "insecure", "verify"} ->
            Len(resolving.cps) - resolving.k
      [] OTHER -> 0

\* calls of bundle.TLSConfig() the calls in progress will still make
Reserved == Cardinality({p \in Procs : calls[p].pc = "config"}) + ResolveReserved

\* bundle.TLSConfig() has been called once more
Taken == [bundle EXCEPT !.taken = @ + 1]

\* the Create calls between their tlsConfig.ServerName = serverName and their
\* return, other than p, see another call assign a server name
Disturbed(p) ==
    [q \in Procs |->
        IF q # p /\ calls[q].pc \in {"insecure", "verify", "return"}
        THEN [calls[q] EXCEPT !.alone = FALSE] ELSE calls[q]]

\* ResolveAstra(bundle) is called: the URL and the HTTPS client are built
ResolveAstraBegin(responses) ==
    /\ resolving.pc = "idle"
    /\ \E response \in responses :
          /\ bundle.taken + Reserved + 1 + Len(response.body.cps) <= MaxConfigs
          /\ LET c == ClientTLSConfig(heap, bundle.fresh)
             IN  /\ heap' = c.heap
                 /\ resolving' = [IdleResolve EXCEPT !.pc = "get", !.response = response,
                                                     !.client = c.ptr]
    /\ bundle' = Taken
    /\ UNCHANGED <<rs, rowRet, dFactory, dRet, aFactory, aRet, calls, made, vRet>>

\* the metadata service has answered: ResolveAstra returns an error, panics
\* on the nil metadata, or enters the loop over the contact points
ResolveAstraFetch ==
    /\ resolving.pc = "get"
    /\ LET m == FetchMetadata(resolving.response)
       IN  IF m.kind = "factory"
           THEN /\ resolving' = [resolving EXCEPT !.pc = "loop", !.sni = m.sni,
                                                   !.cps = m.cps, !.k = 1]
                /\ aRet' = aRet
           ELSE /\ resolving' = IdleResolve
                /\ aRet' = [op |-> "ResolveAstra", response |-> resolving.response,
                            kind |-> m.kind, factory |-> NoFactory, err |-> m.err]
    /\ UNCHANGED <<rs, rowRet, dFactory, dRet, heap, aFactory, calls, made, vRet, bundle>>

\* copyTLSConfig(bundle, cp) for the k-th contact point, statement by statement
ResolveAstraGetConfig ==
    /\ resolving.pc = "loop"
    /\ resolving.k <= Len(resolving.cps)
    /\ LET a == CopyGetConfig(heap, bundle.fresh)
       IN  /\ heap' = a.heap
           /\ resolving' = [resolving EXCEPT !.pc = "name", !.cfg = a.ptr]
    /\ bundle' = Taken
    /\ UNCHANGED <<rs, rowRet, dFactory, dRet, aFactory, aRet, calls, made, vRet>>

ResolveAstraSetServerName ==
    /\ resolving.pc = "name"
    /\ heap' = CopySetServerName(heap, resolving.cfg, resolving.cps[resolving.k])
    /\ resolving' = [resolving EXCEPT !.pc = "insecure"]
    /\ calls' = Disturbed(0)
    /\ UNCHANGED <<rs, rowRet, dFactory, dRet, aFactory, aRet, made, vRet, bundle>>

ResolveAstraSetInsecure ==
    /\ resolving.pc = "insecure"
    /\ heap' = CopySetInsecure(heap, resolving.cfg)
    /\ resolving' = [resolving EXCEPT !.pc = "verify"]
    /\ UNCHANGED <<rs, rowRet, dFactory, dRet, aFactory, aRet, calls, made, vRet, bundle>>

\* the last statement of copyTLSConfig; the endpoint is appended
ResolveAstraSetVerify ==
    /\ resolving.pc = "verify"
    /\ heap' = CopySetVerify(heap, resolving.cfg)
    /\ resolving' = [resolving EXCEPT
                        !.pc = "loop", !.k = @ + 1,
                        !.endpoints = Append(@, AstraEndpoint(resolving.sni,
                                                              resolving.cfg))]
    /\ UNCHANGED <<rs, rowRet, dFactory, dRet, aFactory, aRet, calls, made, vRet, bundle>>

\* the loop is over: the factory is returned
ResolveAstraReturn ==
    /\ resolving.pc = "loop"
    /\ resolving.k > Len(resolving.cps)
    /\ LET f == AstraResolver(resolving.endpoints, resolving.sni)
       IN  /\ aRet' = [op |-> "ResolveAstra", response |-> resolving.response,
                       kind |-> "factory", factory |-> f, err |-> ""]
           /\ aFactory' = f
           /\ made' = made \o MadeByResolve(heap, f, resolving.cps, 1)
    /\ resolving' = IdleResolve
    /\ UNCHANGED <<rs, rowRet, dFactory, dRet, heap, calls, vRet, bundle>>

\* a ResolveAstra call at any of its statements
ResolveAstra(responses) ==
    \/ ResolveAstraBegin(responses)
    \/ ResolveAstraFetch
    \/ ResolveAstraGetConfig
    \/ ResolveAstraSetServerName
    \/ ResolveAstraSetInsecure
    \/ ResolveAstraSetVerify
    \/ ResolveAstraReturn

\* Create is called on the current factory; the lookup of host_id decides
\* whether it goes on to copyTLSConfig
AstraCreateBegin(p) ==
    /\ calls[p].pc \in {"idle", "done"}
    /\ aFactory.kind = "astra"
    /\ bundle.taken + Reserved < MaxConfigs
    /\ \E row \in AstraRows :
          LET l == AstraCreateLookup(row)
              c == [IdleCall EXCEPT !.row = row, !.factory = aFactory]
          IN  calls' = [calls EXCEPT ![p] =
                 CASE l.next = "copy"  -> [c EXCEPT !.pc = "config", !.name = l.name]
                   [] l.next = "err"   -> [c EXCEPT !.pc = "done", !.ret = CreateErr(l.err)]
                   [] OTHER            -> [c EXCEPT !.pc = "done", !.ret = CreatePanic]]
    /\ UNCHANGED <<rs, rowRet, dFactory, dRet, heap, aFactory, aRet, made, vRet, resolving, bundle>>

AstraCreateGetConfig(p) ==
    /\ calls[p].pc = "config"
    /\ LET a == CopyGetConfig(heap, bundle.fresh)
       IN  /\ heap' = a.heap
           /\ calls' = [calls EXCEPT ![p].pc = "name", ![p].cfg = a.ptr]
    /\ bundle' = Taken
    /\ UNCHANGED <<rs, rowRet, dFactory, dRet, aFactory, aRet, made, vRet, resolving>>

AstraCreateSetServerName(p) ==
    /\ calls[p].pc = "name"
    /\ heap' = CopySetServerName(heap, calls[p].cfg, calls[p].name)
    /\ calls' = [Disturbed(p) EXCEPT ![p].pc = "insecure"]
    /\ UNCHANGED <<rs, rowRet, dFactory, dRet, aFactory, aRet, made, vRet, resolving, bundle>>

AstraCreateSetInsecure(p) ==
    /\ calls[p].pc = "insecure"
    /\ heap' = CopySetInsecure(heap, calls[p].cfg)
    /\ calls' = [calls EXCEPT ![p].pc = "verify"]
    /\ UNCHANGED <<rs, rowRet, dFactory, dRet, aFactory, aRet, made, vRet, resolving, bundle>>

AstraCreateSetVerify(p) ==
    /\ calls[p].pc = "verify"
    /\ heap' = CopySetVerify(heap, calls[p].cfg)
    /\ calls' = [calls EXCEPT ![p].pc = "return"]
    /\ UNCHANGED <<rs, rowRet, dFactory, dRet, aFactory, aRet, made, vRet, resolving, bundle>>

AstraCreateReturn(p) ==
    /\ calls[p].pc = "return"
    /\ LET e == AstraCreateEndpoint(calls[p].factory, calls[p].cfg)
       IN  /\ calls' = [calls EXCEPT ![p].pc = "done", ![p].ret = CreateOk(e)]
           /\ made' = Append(made, Made(heap, e, "create", calls[p].name,
                                        ByName(calls[p].row, "host_id").val.b,
                                        calls[p].factory, calls[p].alone))
    /\ UNCHANGED <<rs, rowRet, dFactory, dRet, heap, aFactory, aRet, vRet, resolving, bundle>>

(***************************************************************************)
(* Inputs and operations of the TLS trust builder on its own.              *)
(***************************************************************************)
ServerNames == {UUIDString(UUIDa), UUIDString(UUIDc), BundleHost}

RawCerts ==
    {Cert("leaf", "ca1", FALSE, {BundleHost}, 2),            \* signed by the pool
     Cert("leaf", "ca1", FALSE, {UUIDString(UUIDa)}, 2),     \* named after a node
     Cert("leaf", "evil", FALSE, {BundleHost}, 2),           \* signed by a stranger
     Cert("leaf", "ca1", FALSE, {BundleHost}, 1),            \* expires at 1
     Cert("leaf", "int1", FALSE, {BundleHost}, 2),           \* signed by int1
     Cert("int1", "ca1", TRUE, {}, 2),                       \* an intermediate
     Garbage}

Times == {1, 2}

PresentedChains == SeqsUpTo(RawCerts, MaxChain)

NoVerify == [op |-> "none", cfg |-> 0, rawCerts |-> <<>>, now |-> 0, out |-> "none"]

CallCopyTLSConfig ==
    /\ vRet.op = "none"
    /\ bundle.taken < MaxConfigs
    /\ \E name \in ServerNames : heap' = copyTLSConfig(heap, bundle.fresh, name).heap
    /\ bundle' = Taken
    /\ UNCHANGED <<rs, rowRet, dFactory, dRet, aFactory, aRet, calls, made, vRet, resolving>>

\* the configurations copyTLSConfig has returned
Configured == {p \in 1..Len(heap) : heap[p].VerifyPeerCertificate # 0}

\* a handshake with configuration p: the peer presents rawCerts at time now
CallVerifyPeerCertificate ==
    /\ vRet.op = "none"
    /\ \E p \in Configured, rawCerts \in PresentedChains, now \in Times :
          vRet' = [op |-> "verify", cfg |-> p, rawCerts |-> rawCerts, now |-> now,
                   out |-> VerifyPeerCertificate(heap, p, rawCerts, now)]
    /\ UNCHANGED <<rs, rowRet, dFactory, dRet, heap, aFactory, aRet, calls, made, resolving, bundle>>

(***************************************************************************)
(* The specifications: one per component, from the same initial state.     *)
(***************************************************************************)
Idle ==
    /\ rs = NewResultSet(EmptyRows, 4)
    /\ rowRet = NoRowCall
    /\ dFactory = NoFactory
    /\ dRet = NoDirectCall
    /\ heap = <<BundleConfig>>
    /\ aFactory = NoFactory
    /\ aRet = NoAstraCall
    /\ calls = [p \in Procs |-> IdleCall]
    /\ made = <<>>
    /\ vRet = NoVerify
    /\ resolving = IdleResolve

\* the row decoder and the direct strategy are given no bundle
Init == Idle /\ bundle = NoBundle

\* the cloud strategy is given a bundle of either kind
InitCloud == Idle /\ bundle \in Bundles

\* a run of the row decoder is given one response
InitRow ==
    /\ rs \in {NewResultSet(rows, v) : rows \in RowsResults, v \in Versions}
    /\ rowRet = NoRowCall
    /\ dFactory = NoFactory
    /\ dRet = NoDirectCall
    /\ heap = <<BundleConfig>>
    /\ aFactory = NoFactory
    /\ aRet = NoAstraCall
    /\ calls = [p \in Procs |-> IdleCall]
    /\ made = <<>>
    /\ vRet = NoVerify
    /\ resolving = IdleResolve
    /\ bundle = NoBundle

NextRow == CallRowCount \/ CallByName \/ CallByPos

SpecRow == InitRow /\ [][NextRow]_vars

NextDirect == CallResolve \/ CallDefaultCreate

SpecDirect == Init /\ [][NextDirect]_vars

NextBootstrap == ResolveAstra(Responses)

SpecBootstrap == InitCloud /\ [][NextBootstrap]_vars

NextCloud ==
    \/ ResolveAstra(GoodResponses)
    \/ \E p \in Procs :
          \/ AstraCreateBegin(p)
          \/ AstraCreateGetConfig(p)
          \/ AstraCreateSetServerName(p)
          \/ AstraCreateSetInsecure(p)
          \/ AstraCreateSetVerify(p)
          \/ AstraCreateReturn(p)

SpecCloud == InitCloud /\ [][NextCloud]_vars

NextTLS == CallCopyTLSConfig \/ CallVerifyPeerCertificate

SpecTLS == InitCloud /\ [][NextTLS]_vars

(***************************************************************************)
(* What the claims are stated with: the texts the inputs are expected to   *)
(* print as, written out, and positions read off the metadata.             *)
(***************************************************************************)
ExpectedIPText(b) ==
    CASE b = IP4Zero -> "0.0.0.0"
      [] b = IP4Peer -> "10.0.0.5"
      [] b = IP4Rpc -> "10.0.0.9"
      [] b = IP6Zero -> "::"
      [] b = IP6MappedZero -> "0.0.0.0"
      [] b = IP6Node -> "2001:db8::1:0:0:1"
      [] OTHER -> "?"

ExpectedUUIDText(u) ==
    CASE u = UUIDa -> "01100000-0000-0000-0000-000000000000"
      [] u = UUIDb -> "11000000-0000-0000-0000-000000000000"
      [] u = UUIDc -> "00000000-0000-0000-0000-0000000000ab"
      [] OTHER -> "?"

ExpectedPortText(n) == IF n = 9042 THEN "9042" ELSE IF n = 19042 THEN "19042" ELSE "?"

\* the unspecified addresses: all-zero IPv4 (in either form) and all-zero IPv6
UnspecifiedAddresses == {IP4Zero, IP6MappedZero, IP6Zero}

\* the 0-based position of the last column named n
LastIndexOf(columns, n) ==
    CHOOSE k \in 0..(Len(columns) - 1) :
        /\ columns[k + 1].Name = n
        /\ \A j \in (k + 1)..(Len(columns) - 1) : columns[j + 1].Name # n

FirstIndexOf(columns, n) ==
    CHOOSE k \in 0..(Len(columns) - 1) :
        /\ columns[k + 1].Name = n
        /\ \A j \in 0..(k - 1) : columns[j + 1].Name # n

HasColumn(row, n) == n \in ColumnNames(row.resultSet.result.Columns)

\* what the row's column n decodes to, read by position
Decoded(row, n) == ByPos(row, LastIndexOf(row.resultSet.result.Columns, n))

AllInet(row) ==
    \A k \in 1..Len(row.resultSet.result.Columns) :
        row.resultSet.result.Columns[k].Type = "inet"

(***************************************************************************)
(* C10.  Row lookup by name agrees with lookup by position: ByName(col)    *)
(* returns what ByPos returns at the position of the last column named     *)
(* col, and the column-not-found error, never a value, for a name that no  *)
(* column carries.                                                         *)
(***************************************************************************)
C10_ByNameAgreesWithByPos ==
    (rowRet.op = "ByName" /\ RowInRange(rs, rowRet.i)) =>
        IF rowRet.name \in ColumnNames(rs.result.Columns)
        THEN rowRet.ret = ByPos(Row(rs, rowRet.i),
                                LastIndexOf(rs.result.Columns, rowRet.name))
        ELSE rowRet.ret = Failed(ColumnNameNotFound)

\* a name carried by two columns, looked up, where the two positions differ
C10_Witness ==
    /\ rowRet.op = "ByName"
    /\ RowInRange(rs, rowRet.i)
    /\ rowRet.name \in ColumnNames(rs.result.Columns)
    /\ rowRet.ret.kind = "ok"
    /\ ByPos(Row(rs, rowRet.i), FirstIndexOf(rs.result.Columns, rowRet.name)) # rowRet.ret

(***************************************************************************)
(* C5 as stated.  Direct Create: a row whose rpc_address is unspecified    *)
(* and whose peer is P yields the endpoint "P:defaultPort"; a row whose    *)
(* rpc_address is another address A yields "A:defaultPort" regardless of   *)
(* what the peer column holds (present, absent, or any value).             *)
(***************************************************************************)
C5_RegardlessOfPeer ==
    (dRet.op = "Create" /\ HasColumn(dRet.row, "rpc_address")
       /\ Decoded(dRet.row, "rpc_address").kind = "ok"
       /\ Decoded(dRet.row, "rpc_address").val.t = "ip") =>
        LET a    == Decoded(dRet.row, "rpc_address").val.b
            port == ExpectedPortText(dFactory.defaultPort)
        IN  IF a \in UnspecifiedAddresses
            THEN (HasColumn(dRet.row, "peer") /\ Decoded(dRet.row, "peer").kind = "ok"
                    /\ Decoded(dRet.row, "peer").val.t = "ip") =>
                     /\ dRet.kind = "endpoint"
                     /\ Addr(dRet.ep) =
                          ExpectedIPText(Decoded(dRet.row, "peer").val.b) \o ":" \o port
            ELSE /\ dRet.kind = "endpoint"
                 /\ Addr(dRet.ep) = ExpectedIPText(a) \o ":" \o port

(***************************************************************************)
(* C5 as amended.  Direct Create: a row whose rpc_address is unspecified   *)
(* and whose peer is P yields the endpoint "P:defaultPort"; a row whose    *)
(* rpc_address is another address A yields "A:defaultPort" when the peer   *)
(* column is absent or decodes, to a value of any type; when the peer      *)
(* column is present and its bytes do not decode, Create returns that      *)
(* decode error and no endpoint, whatever rpc_address is.                  *)
(***************************************************************************)
C5_DirectCreateAddress ==
    (dRet.op = "Create" /\ HasColumn(dRet.row, "rpc_address")
       /\ Decoded(dRet.row, "rpc_address").kind = "ok"
       /\ Decoded(dRet.row, "rpc_address").val.t = "ip") =>
        LET a    == Decoded(dRet.row, "rpc_address").val.b
            port == ExpectedPortText(dFactory.defaultPort)
        IN  /\ (HasColumn(dRet.row, "peer") /\ Decoded(dRet.row, "peer").kind = "err") =>
                  /\ dRet.kind = "err"
                  /\ dRet.err = DecodeError
                  /\ dRet.ep = NoEndpoint
            /\ IF a \in UnspecifiedAddresses
               THEN (HasColumn(dRet.row, "peer") /\ Decoded(dRet.row, "peer").kind = "ok"
                       /\ Decoded(dRet.row, "peer").val.t = "ip") =>
                        /\ dRet.kind = "endpoint"
                        /\ Addr(dRet.ep) =
                             ExpectedIPText(Decoded(dRet.row, "peer").val.b) \o ":" \o port
               ELSE (~HasColumn(dRet.row, "peer") \/ Decoded(dRet.row, "peer").kind = "ok") =>
                        /\ dRet.kind = "endpoint"
                        /\ Addr(dRet.ep) = ExpectedIPText(a) \o ":" \o port

\* the spec's example: rpc_address 0.0.0.0 and peer 10.0.0.5 at port 9042
C5_Witness ==
    /\ dRet.op = "Create"
    /\ HasColumn(dRet.row, "rpc_address") /\ HasColumn(dRet.row, "peer")
    /\ Decoded(dRet.row, "rpc_address") = Returned([t |-> "ip", b |-> IP4Zero])
    /\ Decoded(dRet.row, "peer") = Returned([t |-> "ip", b |-> IP4Peer])
    /\ dRet.kind = "endpoint"
    /\ Addr(dRet.ep) = "10.0.0.5:9042"

(***************************************************************************)
(* C6.  Direct Create on a topology row (address-typed columns) always     *)
(* returns an endpoint or an error: an error without rpc_address, an       *)
(* endpoint without peer when rpc_address is not unspecified, and an error *)
(* without peer when rpc_address is unspecified.                           *)
(***************************************************************************)
C6_DirectCreateAlwaysReturns ==
    (dRet.op = "Create" /\ AllInet(dRet.row)) =>
        /\ dRet.kind \in {"endpoint", "err"}
        /\ ~HasColumn(dRet.row, "rpc_address") => dRet.kind = "err"
        /\ (~HasColumn(dRet.row, "peer") /\ HasColumn(dRet.row, "rpc_address")
              /\ Decoded(dRet.row, "rpc_address").kind = "ok") =>
               IF Decoded(dRet.row, "rpc_address").val.b \in UnspecifiedAddresses
               THEN dRet.kind = "err"
               ELSE dRet.kind = "endpoint"

(***************************************************************************)
(* C8.  Direct bootstrap is all-or-nothing: when any contact point fails   *)
(* to resolve (lookup failure or unparsable port) Resolve returns an error *)
(* and no factory, wherever the failing one stands; otherwise the contact  *)
(* points are one endpoint per resolved address of every contact point, in *)
(* order, each resolved and without TLS configuration.                     *)
(***************************************************************************)
FailingContactPoints == {"nohost.example", "10.0.0.1:port", "::1"}

ExpectedAddrs(cp, port) ==
    CASE cp = "10.0.0.1" -> <<"10.0.0.1:" \o port>>
      [] cp = "db.example" -> <<"10.0.0.2:" \o port, "10.0.0.3:" \o port>>
      [] cp = "db.example:9043" -> <<"10.0.0.2:9043", "10.0.0.3:9043">>
      [] cp = "v6.example:19042:7" -> <<"2001:db8::1:19042">>
      [] OTHER -> <<>>

RECURSIVE ExpectedContactAddrs(_, _)
ExpectedContactAddrs(cps, port) ==
    IF cps = <<>> THEN <<>>
    ELSE ExpectedAddrs(Head(cps), port) \o ExpectedContactAddrs(Tail(cps), port)

C8_DirectBootstrapAllOrNothing ==
    dRet.op = "Resolve" =>
        IF \E k \in 1..Len(dRet.contactPoints) : dRet.contactPoints[k] \in FailingContactPoints
        THEN /\ dRet.kind = "err"
             /\ dRet.factory = NoFactory
             /\ dFactory = NoFactory
        ELSE /\ dRet.kind = "factory"
             /\ dFactory = dRet.factory
             /\ [k \in 1..Len(dFactory.contactPoints) |-> Addr(dFactory.contactPoints[k])]
                  = ExpectedContactAddrs(dRet.contactPoints, ExpectedPortText(dRet.port))
             /\ \A k \in 1..Len(dFactory.contactPoints) :
                   /\ IsResolved(dFactory.contactPoints[k])
                   /\ TlsConfig(dFactory.contactPoints[k]) = 0

\* the second contact point fails after the first one resolved to two addresses
C8_Witness ==
    /\ dRet.op = "Resolve"
    /\ Len(dRet.contactPoints) = 2
    /\ dRet.contactPoints[1] = "db.example"
    /\ dRet.contactPoints[2] \in FailingContactPoints
    /\ dRet.kind = "err"

(***************************************************************************)
(* C7.  Cloud bootstrap is all-or-nothing: ResolveAstra returns an error   *)
(* and no factory when the fetch fails in transport, the status is not     *)
(* 2xx or the body is not a well-formed JSON metadata object, and returns  *)
(* a factory only for a 2xx response with a parseable body.                *)
(***************************************************************************)
WellFormedMetadata(body) == body.k = "object" /\ body.ci # "string"

Is2xx(status) == 200 <= status /\ status <= 299

C7_CloudBootstrapAllOrNothing ==
    aRet.op = "ResolveAstra" =>
        LET r == aRet.response
            good == r.transport /\ r.readOk /\ Is2xx(r.status) /\ WellFormedMetadata(r.body)
        IN  /\ ~good => (aRet.kind = "err" /\ aRet.factory = NoFactory)
            /\ aRet.kind = "factory" => good

(***************************************************************************)
(* The endpoints Create has returned, and the calls that have ended.       *)
(***************************************************************************)
Created == {k \in 1..Len(made) : made[k].by = "create"}

HostIdCell(row) == row.row[LastIndexOf(row.resultSet.result.Columns, "host_id") + 1]

DecodableHostId(row) ==
    /\ HasColumn(row, "host_id")
    /\ row.resultSet.result.Columns[
           LastIndexOf(row.resultSet.result.Columns, "host_id") + 1].Type = "uuid"
    /\ HostIdCell(row) \in UUIDs

(***************************************************************************)
(* C1.  Cloud strategy: two endpoints that Create returned on the same     *)
(* factory for rows with different host_id values have the same Addr(),    *)
(* the shared sni_proxy_address, and different Key() values, the keys      *)
(* being read after both calls have returned.  It holds in the runs whose  *)
(* bundle hands out copies; on a bundle that hands out its own             *)
(* configuration both endpoints read the name assigned last.               *)
(***************************************************************************)
C1_DistinctHostIdsDistinctKeys ==
    \A i \in Created, j \in Created :
        (made[i].factory = made[j].factory /\ made[i].hostId # made[j].hostId) =>
            /\ Addr(made[i].ep) = Addr(made[j].ep)
            /\ Addr(made[i].ep) = SniProxyAddress
            /\ Key(heap, made[i].ep) # Key(heap, made[j].ep)

Named(p) == calls[p].pc \in {"insecure", "verify", "return", "done"} /\ calls[p].cfg # 0

C3_ConcurrentCreateIndependent ==
    /\ \A p \in Procs :
          Named(p) =>
              /\ heap[calls[p].cfg].ServerName = ExpectedUUIDText(HostIdCell(calls[p].row))
              /\ heap[calls[p].cfg].VerifyPeerCertificate \in {0, calls[p].cfg}
              /\ calls[p].pc \in {"return", "done"} =>
                    heap[calls[p].cfg].VerifyPeerCertificate = calls[p].cfg
              /\ calls[p].pc = "done" =>
                    /\ calls[p].ret.kind = "endpoint"
                    /\ TlsConfig(calls[p].ret.ep) = calls[p].cfg
    /\ \A p \in Procs, q \in Procs :
          (p # q /\ calls[p].cfg # 0 /\ calls[q].cfg # 0) => calls[p].cfg # calls[q].cfg
    /\ \A p \in Procs :
          calls[p].cfg # 0 =>
              /\ calls[p].cfg \notin {resolving.client, resolving.cfg}
              /\ \A k \in 1..Len(resolving.endpoints) :
                    calls[p].cfg # TlsConfig(resolving.endpoints[k])

(***************************************************************************)
(* C4.  Endpoints are immutable after construction: whatever Create and    *)
(* ResolveAstra calls follow, an endpoint that was returned shows the      *)
(* Addr(), Key() and server name it showed when it was returned, and a     *)
(* bootstrap contact endpoint shows the server name of its own             *)
(* contact_points entry.  It holds in the runs whose bundle hands out      *)
(* copies; on a bundle that hands out its own configuration every later    *)
(* copyTLSConfig renames the endpoints returned before.                    *)
(***************************************************************************)
C4_EndpointsImmutable ==
    \A k \in 1..Len(made) :
        /\ Addr(made[k].ep) = made[k].addr
        /\ Key(heap, made[k].ep) = made[k].key
        /\ heap[TlsConfig(made[k].ep)].ServerName = made[k].serverName
        /\ made[k].by = "resolve" => heap[TlsConfig(made[k].ep)].ServerName = made[k].want

(***************************************************************************)
(* C2.  The verification callback is fail-closed: it returns nil only if   *)
(* every raw certificate parses and the leaf verifies against the bundle's *)
(* CA pool, with the bundle's host as DNS name and the other certificates  *)
(* as intermediates; a leaf that no chain links to a CA of the pool gets   *)
(* an error, whatever the server name of the configuration is.             *)
(***************************************************************************)
C2_VerifyFailClosed ==
    vRet.op = "verify" =>
        LET chain == vRet.rawCerts
        IN  /\ vRet.out = "nil" =>
                  /\ Len(chain) >= 1
                  /\ \A k \in 1..Len(chain) : chain[k].ok
                  /\ ChainsTo(chain[1], BundlePool, Tail(chain), vRet.now, Len(chain))
                  /\ BundleHost \in chain[1].dns
            /\ (Len(chain) >= 1 /\ chain[1].ok
                  /\ ~ChainsTo(chain[1], BundlePool, Tail(chain), vRet.now, Len(chain))) =>
                  vRet.out = "err"

\* under a node's server name, a leaf signed by a stranger is refused
C2_Witness ==
    /\ vRet.op = "verify"
    /\ heap[vRet.cfg].ServerName = UUIDString(UUIDa)
    /\ Len(vRet.rawCerts) >= 1
    /\ vRet.rawCerts[1].ok
    /\ vRet.rawCerts[1].issuer = "evil"
    /\ vRet.out = "err"

====
